---- MODULE Spec2Model ----
(***************************************************************************)
(* TimeNote (src/src/App.tsx): a single React component holding a list of  *)
(* notes, a form draft and an "editing" target, with the list persisted    *)
(* under the localStorage key "timenotes_v3".                              *)
(*                                                                         *)
(* Strings are sequences of one-character strings, so that comparison,     *)
(* trimming and collation are computed and not assumed.  The persisted     *)
(* blob is the token sequence of its JSON text (separators dropped).       *)
(***************************************************************************)
EXTENDS Integers, Sequences, FiniteSets, TLC

VARIABLES notes, startTime, endTime, text, editingNoteId,
          storage, pc, pending, mountRuns, quota, lastSave, alertMsg, lastOp

vars == <<notes, startTime, endTime, text, editingNoteId,
          storage, pc, pending, mountRuns, quota, lastSave, alertMsg, lastOp>>

draft == <<startTime, endTime, text, editingNoteId>>

(***************************************************************************)
(* Bounds of the model.                                                    *)
(***************************************************************************)
MaxNotes == 2
MaxClock == 4
MaxMountRuns == 2

(***************************************************************************)
(* Strings.                                                                *)
(***************************************************************************)
Empty == <<>>
T0800 == <<"0", "8", ":", "0", "0">>
T0900 == <<"0", "9", ":", "0", "0">>
T1000 == <<"1", "0", ":", "0", "0">>
Blank == <<" ">>
TextX == <<"x">>
TextY == <<" ", "y">>

\* Values the <input type="time"> and <input type="text"> controls deliver.
StartInputs == {Empty, T0800, T0900}
EndInputs == {Empty, T0800, T1000}
TextInputs == {Empty, Blank, TextY}

\* UTF-16 code unit of a character (the order used by < and >= on strings).
CodeUnit(c) ==
    CASE c = " " -> 32
      [] c = "0" -> 48
      [] c = "1" -> 49
      [] c = "2" -> 50
      [] c = "3" -> 51
      [] c = "4" -> 52
      [] c = "5" -> 53
      [] c = "6" -> 54
      [] c = "7" -> 55
      [] c = "8" -> 56
      [] c = "9" -> 57
      [] c = ":" -> 58
      [] c = "x" -> 120
      [] c = "y" -> 121

\* Primary collation weight of a character (the order used by localeCompare:
\* white space, then punctuation, then digits, then letters).
CollationKey(c) ==
    CASE c = " " -> 1
      [] c = ":" -> 2
      [] c = "0" -> 10
      [] c = "1" -> 11
      [] c = "2" -> 12
      [] c = "3" -> 13
      [] c = "4" -> 14
      [] c = "5" -> 15
      [] c = "6" -> 16
      [] c = "7" -> 17
      [] c = "8" -> 18
      [] c = "9" -> 19
      [] c = "x" -> 33
      [] c = "y" -> 34

RECURSIVE StrLess(_, _)
\* a < b on JavaScript strings: lexicographic by code unit, a proper prefix first.
StrLess(a, b) ==
    IF b = <<>> THEN FALSE
    ELSE IF a = <<>> THEN TRUE
    ELSE IF CodeUnit(Head(a)) # CodeUnit(Head(b))
         THEN CodeUnit(Head(a)) < CodeUnit(Head(b))
         ELSE StrLess(Tail(a), Tail(b))

\* a >= b on JavaScript strings.
StrGeq(a, b) == ~StrLess(a, b)

RECURSIVE localeCompare(_, _)
\* a.localeCompare(b): negative, zero or positive.
localeCompare(a, b) ==
    IF a = <<>> /\ b = <<>> THEN 0
    ELSE IF a = <<>> THEN -1
    ELSE IF b = <<>> THEN 1
    ELSE IF CollationKey(Head(a)) < CollationKey(Head(b)) THEN -1
    ELSE IF CollationKey(Head(a)) > CollationKey(Head(b)) THEN 1
    ELSE localeCompare(Tail(a), Tail(b))

IsSpace(c) == c = " "

RECURSIVE TrimStart(_)
TrimStart(s) ==
    IF s # <<>> /\ IsSpace(Head(s)) THEN TrimStart(Tail(s)) ELSE s

RECURSIVE TrimEnd(_)
TrimEnd(s) ==
    IF s # <<>> /\ IsSpace(s[Len(s)]) THEN TrimEnd(SubSeq(s, 1, Len(s) - 1)) ELSE s

\* text.trim()
Trim(s) == TrimEnd(TrimStart(s))

(***************************************************************************)
(* Values held in the notes state.  The declared type is Note[], but the   *)
(* load effect stores whatever JSON.parse returns.                         *)
(***************************************************************************)
Null == -1

Note(i, s, e, t) ==
    [type |-> "object", id |-> i, startTime |-> s, endTime |-> e, text |-> t]

NullItem ==
    [type |-> "null", id |-> Null, startTime |-> <<>>, endTime |-> <<>>, text |-> <<>>]

Arr(items) == [type |-> "array", num |-> 0, items |-> items]
JsonNull == [type |-> "null", num |-> 0, items |-> <<>>]
JsonNumber(n) == [type |-> "number", num |-> n, items |-> <<>>]
JsonObject == [type |-> "object", num |-> 0, items |-> <<>>]

IsArray(v) == v.type = "array"

\* The notes of an array value.
Items(v) == v.items

Ids(v) == {Items(v)[k].id : k \in 1..Len(Items(v))}

(***************************************************************************)
(* JSON text, as the sequence of its tokens.                               *)
(***************************************************************************)
Tok(k) == [tok |-> k, num |-> 0, str |-> <<>>]
NumTok(n) == [tok |-> "number", num |-> n, str |-> <<>>]
StrTok(s) == [tok |-> "string", num |-> 0, str |-> s]

\* JSON text of one element of the array.
StringifyItem(n) ==
    IF n.type = "null" THEN <<Tok("null")>>
    ELSE <<Tok("{"), Tok("id:"), NumTok(n.id),
           Tok("startTime:"), StrTok(n.startTime),
           Tok("endTime:"), StrTok(n.endTime),
           Tok("text:"), StrTok(n.text), Tok("}")>>

RECURSIVE StringifyItems(_)
StringifyItems(items) ==
    IF items = <<>> THEN <<>>
    ELSE StringifyItem(Head(items)) \o StringifyItems(Tail(items))

\* JSON.stringify(notes)
Stringify(v) ==
    CASE v.type = "array"  -> <<Tok("[")>> \o StringifyItems(v.items) \o <<Tok("]")>>
      [] v.type = "null"   -> <<Tok("null")>>
      [] v.type = "number" -> <<NumTok(v.num)>>
      [] v.type = "object" -> <<Tok("{"), Tok("}")>>

\* Length in tokens of an object with the four fields of a note.
NoteTokens == Len(StringifyItem(Note(0, <<>>, <<>>, <<>>)))

\* The tokens at the head of toks are an object with the fields of a note.
IsNoteAt(toks) ==
    /\ Len(toks) >= NoteTokens
    /\ toks[1].tok = "{"
    /\ toks[2].tok = "id:"        /\ toks[3].tok = "number"
    /\ toks[4].tok = "startTime:" /\ toks[5].tok = "string"
    /\ toks[6].tok = "endTime:"   /\ toks[7].tok = "string"
    /\ toks[8].tok = "text:"      /\ toks[9].tok = "string"
    /\ toks[10].tok = "}"

RECURSIVE ParseItems(_)
\* The elements between "[" and "]": null or note objects.
ParseItems(toks) ==
    IF toks = <<>> THEN [ok |-> TRUE, items |-> <<>>]
    ELSE IF Head(toks).tok = "null"
    THEN LET r == ParseItems(Tail(toks))
         IN  [ok |-> r.ok, items |-> <<NullItem>> \o r.items]
    ELSE IF IsNoteAt(toks)
    THEN LET r == ParseItems(SubSeq(toks, NoteTokens + 1, Len(toks)))
             n == Note(toks[3].num, toks[5].str, toks[7].str, toks[9].str)
         IN  [ok |-> r.ok, items |-> <<n>> \o r.items]
    ELSE [ok |-> FALSE, items |-> <<>>]

\* JSON.parse(savedNotes): ok = FALSE stands for the SyntaxError it throws.
Parse(toks) ==
    IF Len(toks) = 1 /\ toks[1].tok = "null" THEN [ok |-> TRUE, val |-> JsonNull]
    ELSE IF Len(toks) = 1 /\ toks[1].tok = "number"
    THEN [ok |-> TRUE, val |-> JsonNumber(toks[1].num)]
    ELSE IF toks = <<Tok("{"), Tok("}")>> THEN [ok |-> TRUE, val |-> JsonObject]
    ELSE IF Len(toks) >= 2 /\ toks[1].tok = "[" /\ toks[Len(toks)].tok = "]"
    THEN LET r == ParseItems(SubSeq(toks, 2, Len(toks) - 1))
         IN  [ok |-> r.ok, val |-> Arr(r.items)]
    ELSE [ok |-> FALSE, val |-> JsonNull]

(***************************************************************************)
(* localStorage["timenotes_v3"].                                           *)
(***************************************************************************)
Missing == [present |-> FALSE, blob |-> <<>>]
Stored(toks) == [present |-> TRUE, blob |-> toks]

\* Blobs found under the key when the application starts: nothing, text that
\* is no JSON, JSON that is no array, an array holding no note, and arrays of
\* notes as an earlier session, another script or the user may have left them.
StoredNoteA == Note(1, T0800, T1000, TextX)
StoredNoteB == Note(2, T0900, T1000, TextX)
StoredNoteC == Note(1, T0900, T0800, TextX)

InitialStorage ==
    { Missing,
      Stored(<<Tok("[")>>),
      Stored(<<Tok("null")>>),
      Stored(<<NumTok(5)>>),
      Stored(<<Tok("{"), Tok("}")>>),
      Stored(<<Tok("["), Tok("null"), Tok("]")>>),
      Stored(Stringify(Arr(<<StoredNoteA>>))),
      Stored(Stringify(Arr(<<StoredNoteB, StoredNoteA>>))),
      Stored(Stringify(Arr(<<StoredNoteC>>))) }

\* Room left for the value of the key, in tokens: none, room for an empty
\* array only, room for every list the model builds.
Quotas == {0, Len(Stringify(Arr(<<>>))),
           Len(Stringify(Arr(<<>>))) + (MaxNotes + 1) * NoteTokens}

\* localStorage.setItem throws QuotaExceededError when the value does not fit.
Fits(toks) == Len(toks) <= quota

\* localStorage.setItem inside try/catch: a rejected write leaves the blob.
setItem(toks) == IF Fits(toks) THEN Stored(toks) ELSE storage

(***************************************************************************)
(* The list operations of the handlers.                                    *)
(***************************************************************************)
RECURSIVE InsertSorted(_, _)
\* e placed after every element that does not compare greater than it.
InsertSorted(sorted, e) ==
    IF sorted = <<>> THEN <<e>>
    ELSE IF localeCompare(Head(sorted).startTime, e.startTime) > 0
         THEN <<e>> \o sorted
         ELSE <<Head(sorted)>> \o InsertSorted(Tail(sorted), e)

RECURSIVE SortNotes(_)
\* .sort((a, b) => a.startTime.localeCompare(b.startTime)); the sort is stable.
SortNotes(items) ==
    IF items = <<>> THEN <<>>
    ELSE InsertSorted(SortNotes(SubSeq(items, 1, Len(items) - 1)), items[Len(items)])

\* ReplaceNote with the text left out of the replacement.
ReplaceNoteKeepText(items, i, s, e, t) ==
    [k \in 1..Len(items) |->
        IF items[k].id = i THEN Note(items[k].id, s, e, items[k].text) ELSE items[k]]

\* prevNotes.map(note => note.id === editingNoteId ? {...note, startTime, endTime, text} : note)
ReplaceNote(items, i, s, e, t) ==
    [k \in 1..Len(items) |->
        IF items[k].id = i THEN Note(items[k].id, s, e, t) ELSE items[k]]

\* The updater of the edit branch of handleSubmit.
UpdateNotes(items, i, s, e, t) == SortNotes(ReplaceNote(items, i, s, e, t))

\* The updater of the create branch of handleSubmit.
AddNote(items, i, s, e, t) == SortNotes(Append(items, Note(i, s, e, t)))

\* FilterNotes with the comparison turned round (=== in place of !==).
FilterNotesInverted(items, i) == SelectSeq(items, LAMBDA n : n.id = i)

\* prevNotes.filter(note => note.id !== id)
FilterNotes(items, i) == SelectSeq(items, LAMBDA n : n.id # i)

\* Validate with the text tested as entered (!text in place of !text.trim()).
ValidateUntrimmed(s, e, t) ==
    IF s = Empty \/ e = Empty \/ t = Empty THEN "MissingField"
    ELSE IF StrGeq(s, e) THEN "InvalidRange"
    ELSE "ok"

\* The two checks of handleSubmit, in order.
Validate(s, e, t) ==
    IF s = Empty \/ e = Empty \/ Trim(t) = Empty THEN "MissingField"
    ELSE IF StrGeq(s, e) THEN "InvalidRange"
    ELSE "ok"

\* Rendering throws: notes.length of null, or note.id of a null element.
RenderThrows(v) ==
    \/ v.type = "null"
    \/ v.type = "array" /\ \E k \in 1..Len(v.items) : v.items[k].type = "null"

\* notes.length > 0, which shows the list and the "Delete All" button.
HasNotes(v) == v.type = "array" /\ Len(v.items) > 0

(***************************************************************************)
(* The duration shown with each note of the list, which like the rest of   *)
(* the rendered page is a function of the state.  A number that is a       *)
(* multiple of 0.01 is held as its count of hundredths.                    *)
(***************************************************************************)
Digits == <<"0", "1", "2", "3", "4", "5", "6", "7", "8", "9">>

\* The character of a decimal digit, and the digit of a character.
DigitChar(d) == Digits[d + 1]
DigitValue(c) == CodeUnit(c) - CodeUnit("0")

RECURSIVE Number(_)
\* Number(s) for a string of decimal digits; Number("") is 0.
Number(s) ==
    IF s = <<>> THEN 0
    ELSE 10 * Number(SubSeq(s, 1, Len(s) - 1)) + DigitValue(s[Len(s)])

RECURSIVE NatToString(_)
\* n.toString() for a natural number.
NatToString(n) ==
    IF n < 10 THEN <<DigitChar(n)>>
    ELSE NatToString(n \div 10) \o <<DigitChar(n % 10)>>

\* s.padStart(2, "0")
PadStart2(s) == IF Len(s) < 2 THEN <<"0">> \o s ELSE s

RECURSIVE Split(_, _)
\* s.split(sep) for a separator of one character.
Split(s, sep) ==
    LET at == {k \in 1..Len(s) : s[k] = sep}
    IN  IF at = {} THEN <<s>>
        ELSE LET k == CHOOSE i \in at : \A j \in at : i <= j
             IN  <<SubSeq(s, 1, k - 1)>> \o Split(SubSeq(s, k + 1, Len(s)), sep)

\* timeToMinutes(timeStr)
timeToMinutes(timeStr) ==
    LET parts == Split(timeStr, ":")
        hours == Number(parts[1])
        minutes == Number(parts[2])
    IN  hours * 60 + minutes

\* minutesToTime(minutes)
minutesToTime(minutes) ==
    LET h == minutes \div 60
        m == minutes % 60
    IN  PadStart2(NatToString(h)) \o <<":">> \o PadStart2(NatToString(m))

\* toFixed2 cutting the third decimal off in place of rounding.
toFixed2Truncating(num, den) ==
    LET a == IF num < 0 THEN -num ELSE num
        n == (100 * a) \div den
    IN  (IF num < 0 THEN <<"-">> ELSE <<>>)
            \o NatToString(n \div 100) \o <<".">>
            \o <<DigitChar((n \div 10) % 10), DigitChar(n % 10)>>

\* (num / den).toFixed(2) for den > 0: with n the integer for which n / 100 is
\* nearest to |num / den|, the larger of two, the digits of n with a point
\* before the last two, after a "-" when the number is negative.  A quotient
\* of minutes by 60 is never nearer than 1/600 to the middle of two
\* hundredths, so the rounding of the double is that of the exact quotient.
toFixed2(num, den) ==
    LET a == IF num < 0 THEN -num ELSE num
        q == (100 * a) \div den
        r == (100 * a) % den
        n == IF 2 * r >= den THEN q + 1 ELSE q
    IN  (IF num < 0 THEN <<"-">> ELSE <<>>)
            \o NatToString(n \div 100) \o <<".">>
            \o <<DigitChar((n \div 10) % 10), DigitChar(n % 10)>>

\* parseFloat(s) for the output of toFixed(2), in hundredths.
parseFloat(s) ==
    LET neg == s # <<>> /\ Head(s) = "-"
        parts == Split(IF neg THEN Tail(s) ELSE s, ".")
        n == Number(parts[1]) * 100 + Number(parts[2])
    IN  IF neg THEN -n ELSE n

\* `${x}` for a number x of h hundredths: the shortest decimal that reads
\* back as x, so without the zeros toFixed put at the end.
NumberToString(h) ==
    LET a == IF h < 0 THEN -h ELSE h
        whole == NatToString(a \div 100)
        frac == IF a % 100 = 0 THEN <<>>
                ELSE IF a % 10 = 0 THEN <<".", DigitChar((a \div 10) % 10)>>
                ELSE <<".", DigitChar((a \div 10) % 10), DigitChar(a % 10)>>
    IN  (IF h < 0 THEN <<"-">> ELSE <<>>) \o whole \o frac

\* The text of the duration span of a note.
DurationShown(note) ==
    NumberToString(parseFloat(toFixed2(
        timeToMinutes(note.endTime) - timeToMinutes(note.startTime), 60)))
        \o <<"h">>

\* The duration spans of the rendered list, one for each note; the list is
\* not rendered for an empty notes state, or when rendering throws.
ShownDurations(v) ==
    IF HasNotes(v) /\ ~RenderThrows(v)
    THEN [k \in 1..Len(v.items) |-> DurationShown(v.items[k])]
    ELSE <<>>

(***************************************************************************)
(* Start of the application.                                               *)
(***************************************************************************)
NoUpdate == [set |-> FALSE, val |-> Arr(<<>>)]

Init ==
    /\ notes = Arr(<<>>)
    /\ startTime = Empty
    /\ endTime = Empty
    /\ text = Empty
    /\ editingNoteId = Null
    /\ storage \in InitialStorage
    /\ pc = "mounted"
    /\ pending = NoUpdate
    /\ mountRuns = 0
    /\ quota \in Quotas
    /\ lastSave = "none"
    /\ alertMsg = "none"
    /\ lastOp = "mount"

\* SaveNotes writing the list of the previous render.
SaveStaleNotes(v) ==
    /\ storage' = setItem(Stringify(notes))
    /\ lastSave' = IF Fits(Stringify(notes)) THEN "ok" ELSE "failed"
    /\ UNCHANGED quota

\* The save effect: localStorage.setItem("timenotes_v3", JSON.stringify(notes)).
\* A write the storage rejects is caught and logged.
SaveNotes(v) ==
    /\ storage' = setItem(Stringify(v))
    /\ lastSave' = IF Fits(Stringify(v)) THEN "ok" ELSE "failed"
    /\ UNCHANGED quota

\* The load effect of the first render: a blob that is present, non-empty and
\* parsable is queued as the next notes state; a SyntaxError is caught.
LoadEffect ==
    /\ pc = "mounted"
    /\ pending' = IF storage.present /\ storage.blob # <<>> /\ Parse(storage.blob).ok
                  THEN [set |-> TRUE, val |-> Parse(storage.blob).val]
                  ELSE pending
    /\ pc' = "loaded"
    /\ lastOp' = "load"
    /\ UNCHANGED <<notes, draft, storage, mountRuns, lastSave, quota, alertMsg>>

\* The save effect of the first render, which still sees notes = [].
SaveEffect ==
    /\ pc = "loaded"
    /\ SaveNotes(notes)
    /\ pc' = "effects_done"
    /\ mountRuns' = mountRuns + 1
    /\ lastOp' = "save"
    /\ UNCHANGED <<notes, draft, pending, alertMsg>>

\* A development build runs the mount effects again before the queued state
\* is rendered.
StrictRemount ==
    /\ pc = "effects_done"
    /\ mountRuns < MaxMountRuns
    /\ pc' = "mounted"
    /\ lastOp' = "remount"
    /\ UNCHANGED <<notes, draft, storage, pending, mountRuns, lastSave, quota, alertMsg>>

\* The render of the queued state, followed by the save effect it triggers.
\* A render that throws unmounts the component.
CommitLoad ==
    /\ pc = "effects_done"
    /\ pending' = NoUpdate
    /\ mountRuns' = 0
    /\ lastOp' = "commit"
    /\ IF ~pending.set
       THEN /\ pc' = "idle"
            /\ UNCHANGED <<notes, storage, lastSave, quota>>
       ELSE /\ notes' = pending.val
            /\ IF RenderThrows(pending.val)
               THEN /\ pc' = "crashed"
                    /\ UNCHANGED <<storage, lastSave, quota>>
               ELSE /\ pc' = "idle"
                    /\ SaveNotes(pending.val)
    /\ UNCHANGED <<draft, alertMsg>>

\* The user reloads the page: the component state is gone, the blob stays.
Reload ==
    /\ pc \in {"idle", "crashed"}
    /\ notes' = Arr(<<>>)
    /\ startTime' = Empty
    /\ endTime' = Empty
    /\ text' = Empty
    /\ editingNoteId' = Null
    /\ pending' = NoUpdate
    /\ pc' = "mounted"
    /\ mountRuns' = 0
    /\ lastSave' = "none"
    /\ alertMsg' = "none"
    /\ lastOp' = "mount"
    /\ UNCHANGED <<storage, quota>>

(***************************************************************************)
(* The handlers.  Each runs to completion together with the render it      *)
(* causes and the save effect that follows a change of notes.              *)
(***************************************************************************)
\* onChange of the start time input.
setStartTime(v) ==
    /\ pc = "idle"
    /\ startTime' = v
    /\ alertMsg' = "none"
    /\ lastOp' = "other"
    /\ UNCHANGED <<notes, endTime, text, editingNoteId, storage, pc, pending,
                   mountRuns, lastSave, quota>>

\* onChange of the end time input.
setEndTime(v) ==
    /\ pc = "idle"
    /\ endTime' = v
    /\ alertMsg' = "none"
    /\ lastOp' = "other"
    /\ UNCHANGED <<notes, startTime, text, editingNoteId, storage, pc, pending,
                   mountRuns, lastSave, quota>>

\* onChange of the text input.
setText(v) ==
    /\ pc = "idle"
    /\ text' = v
    /\ alertMsg' = "none"
    /\ lastOp' = "other"
    /\ UNCHANGED <<notes, startTime, endTime, editingNoteId, storage, pc, pending,
                   mountRuns, lastSave, quota>>

\* Values Date.now() returns during the session: later than the ids found in
\* storage; the wall clock need not advance between two readings.
ClockReadings == (StoredNoteB.id + 1)..MaxClock

\* The four setters at the end of handleSubmit, and handleCancelEdit.
ResetDraft ==
    /\ startTime' = Empty
    /\ endTime' = Empty
    /\ text' = Empty
    /\ editingNoteId' = Null

\* handleSubmit: validation, then the edit branch or the create branch, then
\* the reset of the form.  The updater of either branch throws when notes is
\* no array, which unmounts the component.
handleSubmit ==
    /\ pc = "idle"
    /\ LET v == Validate(startTime, endTime, text)
       IN  IF v # "ok"
           THEN /\ alertMsg' = v
                /\ lastOp' = "other"
                /\ UNCHANGED <<notes, draft, storage, pc, lastSave, quota>>
           ELSE IF ~IsArray(notes)
           THEN /\ pc' = "crashed"
                /\ alertMsg' = "none"
                /\ lastOp' = "throw"
                /\ UNCHANGED <<notes, draft, storage, lastSave, quota>>
           ELSE IF editingNoteId # Null
           THEN /\ notes' = Arr(UpdateNotes(Items(notes), editingNoteId,
                                            startTime, endTime, text))
                /\ SaveNotes(notes')
                /\ ResetDraft
                /\ alertMsg' = "none"
                /\ lastOp' = "update"
                /\ UNCHANGED pc
           ELSE /\ Len(Items(notes)) < MaxNotes
                /\ \E now \in ClockReadings :
                      notes' = Arr(AddNote(Items(notes), now, startTime, endTime, text))
                /\ SaveNotes(notes')
                /\ ResetDraft
                /\ alertMsg' = "none"
                /\ lastOp' = "create"
                /\ UNCHANGED pc
    /\ UNCHANGED <<pending, mountRuns>>

\* handleEdit without setEditingNoteId(note.id).
handleEditWithoutId(note) ==
    /\ pc = "idle"
    /\ startTime' = note.startTime
    /\ endTime' = note.endTime
    /\ text' = note.text
    /\ alertMsg' = "none"
    /\ lastOp' = "other"
    /\ UNCHANGED <<notes, editingNoteId, storage, pc, pending, mountRuns, lastSave, quota>>

\* handleEdit(note), from the edit button of a listed note.
handleEdit(note) ==
    /\ pc = "idle"
    /\ editingNoteId' = note.id
    /\ startTime' = note.startTime
    /\ endTime' = note.endTime
    /\ text' = note.text
    /\ alertMsg' = "none"
    /\ lastOp' = "other"
    /\ UNCHANGED <<notes, storage, pc, pending, mountRuns, lastSave, quota>>

\* handleDelete(id), from the delete button of a listed note.
handleDelete(id) ==
    /\ pc = "idle"
    /\ notes' = Arr(FilterNotes(Items(notes), id))
    /\ SaveNotes(notes')
    /\ alertMsg' = "none"
    /\ lastOp' = "delete"
    /\ UNCHANGED <<draft, pc, pending, mountRuns>>

\* handleCancelEdit, from the cancel button shown while editing.
handleCancelEdit ==
    /\ pc = "idle"
    /\ editingNoteId # Null
    /\ ResetDraft
    /\ alertMsg' = "none"
    /\ lastOp' = "cancel"
    /\ UNCHANGED <<notes, storage, pc, pending, mountRuns, lastSave, quota>>

\* The "Delete All" button, shown while there are notes: setNotes([]) when
\* the user confirms, nothing otherwise.
deleteAll(confirmed) ==
    /\ pc = "idle"
    /\ HasNotes(notes)
    /\ alertMsg' = "none"
    /\ IF confirmed
       THEN /\ notes' = Arr(<<>>)
            /\ SaveNotes(notes')
            /\ lastOp' = "deleteAll"
       ELSE /\ lastOp' = "other"
            /\ UNCHANGED <<notes, storage, lastSave, quota>>
    /\ UNCHANGED <<draft, pc, pending, mountRuns>>

\* The buttons of the list exist for the notes that are rendered.
ListedNotes == IF HasNotes(notes) THEN {Items(notes)[k] : k \in 1..Len(Items(notes))} ELSE {}

Next ==
    \/ LoadEffect
    \/ SaveEffect
    \/ StrictRemount
    \/ CommitLoad
    \/ Reload
    \/ \E v \in StartInputs : setStartTime(v)
    \/ \E v \in EndInputs : setEndTime(v)
    \/ \E v \in TextInputs : setText(v)
    \/ handleSubmit
    \/ \E note \in ListedNotes : handleEdit(note)
    \/ \E note \in ListedNotes : handleDelete(note.id)
    \/ handleCancelEdit
    \/ \E confirmed \in BOOLEAN : deleteAll(confirmed)

Spec == Init /\ [][Next]_vars

(***************************************************************************)
(* The start of the application over one persisted note, for every pair of *)
(* times of day a time input can deliver that passes the validation.       *)
(***************************************************************************)
\* The values of an <input type="time">: "00:00" to "23:59".
ClockTimes == {minutesToTime(m) : m \in 0..(24 * 60 - 1)}

\* Start times of the persisted note: the first minute of the day, the start
\* of a working day, the last minute but one.
DurationStarts == {minutesToTime(0), T0900, minutesToTime(24 * 60 - 2)}

DurationNotes ==
    {Note(StoredNoteA.id, p[1], p[2], TextX) :
        p \in {q \in DurationStarts \X ClockTimes : Validate(q[1], q[2], TextX) = "ok"}}

InitDuration ==
    /\ notes = Arr(<<>>)
    /\ startTime = Empty
    /\ endTime = Empty
    /\ text = Empty
    /\ editingNoteId = Null
    /\ storage \in {Stored(Stringify(Arr(<<n>>))) : n \in DurationNotes}
    /\ pc = "mounted"
    /\ pending = NoUpdate
    /\ mountRuns = 0
    /\ quota \in {q \in Quotas : q >= Len(Stringify(Arr(<<StoredNoteA>>)))}
    /\ lastSave = "none"
    /\ alertMsg = "none"
    /\ lastOp = "mount"

NextDuration ==
    \/ LoadEffect
    \/ SaveEffect
    \/ CommitLoad

SpecDuration == InitDuration /\ [][NextDuration]_vars

TypeOK ==
    /\ pc \in {"mounted", "loaded", "effects_done", "idle", "crashed"}
    /\ notes.type \in {"array", "null", "number", "object"}
    /\ startTime \in StartInputs
    /\ endTime \in EndInputs
    /\ text \in TextInputs \cup {TextX}
    /\ mountRuns \in 0..MaxMountRuns
    /\ quota \in Quotas
    /\ lastSave \in {"none", "ok", "failed"}
    /\ alertMsg \in {"none", "MissingField", "InvalidRange"}

(***************************************************************************)
(* Vocabulary of the properties, written without the operators of the      *)
(* handlers.                                                               *)
(***************************************************************************)
\* The draft has an empty time or a text that is empty once trimmed.
DraftMissingField ==
    \/ Len(startTime) = 0
    \/ Len(endTime) = 0
    \/ \A k \in 1..Len(text) : text[k] = " "

\* The draft's start time is not before its end time.
DraftInvalidRange == ~StrLess(startTime, endTime)

DraftValid == ~DraftMissingField /\ ~DraftInvalidRange

\* Number of elements of a sequence equal to r.
Count(seq, r) == Cardinality({k \in 1..Len(seq) : seq[k] = r})

\* The elements of a sequence, as a set.
Range(seq) == {seq[k] : k \in 1..Len(seq)}

\* C1: in every reachable state the note collection is ordered non-decreasing
\* by startTime under string comparison.
NotesSortedByStartTime ==
    IsArray(notes) =>
        \A k \in 1..(Len(Items(notes)) - 1) :
            ~StrLess(Items(notes)[k + 1].startTime, Items(notes)[k].startTime)

\* C2: a submit whose draft misses a field or has startTime >= endTime is
\* rejected with the message of its error and leaves the note collection, the
\* persisted blob and the draft exactly as they were.
RejectedSubmitChangesNothing ==
    [][(handleSubmit /\ (DraftMissingField \/ DraftInvalidRange))
           => /\ UNCHANGED <<notes, storage, draft>>
              /\ alertMsg' = IF DraftMissingField THEN "MissingField"
                                                  ELSE "InvalidRange"]_vars

\* C2 witness: a submit was rejected for its range while a note was being edited.
RejectedWhileEditing ==
    /\ alertMsg = "InvalidRange"
    /\ editingNoteId # Null
    /\ HasNotes(notes)

\* C3: every note in the collection has startTime < endTime, in every
\* reachable state.
EveryNoteStartsBeforeItEnds ==
    IsArray(notes) =>
        \A k \in 1..Len(Items(notes)) :
            Items(notes)[k].type = "object"
                => StrLess(Items(notes)[k].startTime, Items(notes)[k].endTime)

\* C4: note ids are unique within the collection in every reachable state.
NoteIdsUnique ==
    IsArray(notes) =>
        \A j, k \in 1..Len(Items(notes)) :
            j # k => Items(notes)[j].id # Items(notes)[k].id

\* The notes of the collection; a store that holds no list counts as empty.
Collection(v) == IF IsArray(v) THEN Items(v) ELSE <<>>

\* seq with its k-th element taken out.
RemoveAt(seq, k) == SubSeq(seq, 1, k - 1) \o SubSeq(seq, k + 1, Len(seq))

\* after is before with one note added that carries the draft's values.
AddedDraftTo(before, after) ==
    /\ Len(after) = Len(before) + 1
    /\ \E k \in 1..Len(after) :
          /\ after[k].startTime = startTime
          /\ after[k].endTime = endTime
          /\ after[k].text = text
          /\ RemoveAt(after, k) = before

\* C5: for every draft with editingId = null that passes validation, submit
\* increases the collection size by exactly one, the new note carries the
\* draft's values (text as entered), and every earlier note is still present
\* with unchanged fields.
CreateAddsExactlyOneNote ==
    [][(handleSubmit /\ editingNoteId = Null /\ DraftValid)
           => (IsArray(notes') /\ AddedDraftTo(Collection(notes), Items(notes')))]_vars

\* C5, restricted to the states in which notes holds a list.
CreateAddsExactlyOneNoteToAList ==
    [][(handleSubmit /\ editingNoteId = Null /\ DraftValid /\ IsArray(notes))
           => (IsArray(notes') /\ AddedDraftTo(Items(notes), Items(notes')))]_vars

\* C6: a valid submit while editingId = i and a note with id i is in the
\* collection gives every note with id i the draft's values and keeps its id;
\* the size is unchanged and every note with another id keeps all its fields.
EditReplacesOnlyTheEditedNote ==
    [][(handleSubmit /\ DraftValid /\ IsArray(notes) /\ editingNoteId # Null
                     /\ editingNoteId \in Ids(notes))
           => /\ IsArray(notes')
              /\ Len(Items(notes')) = Len(Items(notes))
              /\ Count(Items(notes'), Note(editingNoteId, startTime, endTime, text))
                     = Cardinality({k \in 1..Len(Items(notes)) :
                                       Items(notes)[k].id = editingNoteId})
              /\ \A r \in Range(Items(notes)) \cup Range(Items(notes')) :
                    r.id # editingNoteId
                        => Count(Items(notes'), r) = Count(Items(notes), r)]_vars

\* C6 witness: a note loaded from storage was rewritten by an edit while
\* another note was in the collection.
StoredNoteRewritten ==
    /\ lastOp = "update"
    /\ IsArray(notes)
    /\ Len(Items(notes)) = MaxNotes
    /\ \E k \in 1..Len(Items(notes)) :
          /\ Items(notes)[k].id = StoredNoteA.id
          /\ Items(notes)[k].text = TextY
          /\ Items(notes)[k].startTime # StoredNoteA.startTime

\* C7: a valid submit while editingId = i and no note with id i is in the
\* collection leaves the collection unchanged and signals the condition to
\* the user instead of reporting success.
StaleEditIsSignalled ==
    [][(handleSubmit /\ DraftValid /\ IsArray(notes) /\ editingNoteId # Null
                     /\ editingNoteId \notin Ids(notes))
           => (notes' = notes /\ alertMsg' # "none")]_vars

RECURSIVE KeepOthers(_, _)
\* seq without the notes whose id is i, the others in their order.
KeepOthers(seq, i) ==
    IF seq = <<>> THEN <<>>
    ELSE IF seq[Len(seq)].id = i
         THEN KeepOthers(SubSeq(seq, 1, Len(seq) - 1), i)
         ELSE Append(KeepOthers(SubSeq(seq, 1, Len(seq) - 1), i), seq[Len(seq)])

PersistedMatchesMemory ==
    (pc = "idle" /\ lastSave = "ok") => storage = Stored(Stringify(notes))

\* C9 witness: a note was deleted, another remains and was written.
PersistedAfterDelete ==
    /\ pc = "idle"
    /\ lastOp = "delete"
    /\ lastSave = "ok"
    /\ HasNotes(notes)

\* C10: the startup load never leaves the application failed; a blob that is
\* no array of notes is treated as an empty store.
LoadNeverFails ==
    /\ pc # "crashed"
    /\ pc = "idle" => (IsArray(notes) /\ \A k \in 1..Len(Items(notes)) :
                                             Items(notes)[k].type = "object")

\* C11: beginEdit(note) copies the note's startTime, endTime, text and id into
\* the draft, cancelEdit() resets the draft to empty fields with no editing
\* target, and neither changes the note collection or the persisted blob.
EditAndCancelTouchOnlyTheDraft ==
    [][/\ \A n \in ListedNotes :
             handleEdit(n)
                 => /\ startTime' = n.startTime
                    /\ endTime' = n.endTime
                    /\ text' = n.text
                    /\ editingNoteId' = n.id
                    /\ UNCHANGED <<notes, storage>>
       /\ handleCancelEdit
             => /\ Len(startTime') = 0
                /\ Len(endTime') = 0
                /\ Len(text') = 0
                /\ editingNoteId' = Null
                /\ UNCHANGED <<notes, storage>>]_vars

\* C11 witness: an edit of a listed note was cancelled; the draft is cleared
\* and the note is still listed and persisted.
CancelledAnEdit ==
    /\ lastOp = "cancel"
    /\ HasNotes(notes)
    /\ storage = Stored(Stringify(notes))
    /\ draft = <<Empty, Empty, Empty, Null>>

\* Minutes since midnight of a time "HH:MM", read digit by digit.
MinuteOfDay(t) ==
    60 * (10 * DigitValue(t[1]) + DigitValue(t[2]))
        + 10 * DigitValue(t[4]) + DigitValue(t[5])

\* The way v hundredths of an hour below 100 hours are written: the hours,
\* then a point and one or two decimals when there are any, then "h".
HoursText(v) ==
    LET a == IF v < 0 THEN -v ELSE v
        w == a \div 100
        f == a % 100
    IN  (IF v < 0 THEN <<"-">> ELSE <<>>)
            \o (IF w < 10 THEN <<Digits[w + 1]>>
                ELSE <<Digits[(w \div 10) + 1], Digits[(w % 10) + 1]>>)
            \o (IF f = 0 THEN <<>>
                ELSE IF f % 10 = 0 THEN <<".", Digits[(f \div 10) + 1]>>
                ELSE <<".", Digits[(f \div 10) + 1], Digits[(f % 10) + 1]>>)
            \o <<"h">>

T1030 == <<"1", "0", ":", "3", "0">>

\* C12: the duration shown with every listed note is the difference of
\* minutes(endTime) and minutes(startTime), with minutes("HH:MM") = 60 * HH + MM,
\* divided by 60 and rounded to two decimals; for a note with
\* startTime < endTime it is more than 0 and less than 24, and 09:00 to 10:30
\* is shown as 1.5.
DurationShownIsRoundedHours ==
    pc = "idle" /\ HasNotes(notes)
        => /\ Len(ShownDurations(notes)) = Len(Items(notes))
           /\ \A k \in 1..Len(Items(notes)) :
                 LET n == Items(notes)[k]
                     d == MinuteOfDay(n.endTime) - MinuteOfDay(n.startTime)
                 IN  /\ \E v \in (-24 * 100)..(24 * 100) :
                           /\ 60 * v - 100 * d \in -30..30
                           /\ ShownDurations(notes)[k] = HoursText(v)
                           /\ StrLess(n.startTime, n.endTime) => 0 < v /\ v < 24 * 100
                     /\ n.startTime = T0900 /\ n.endTime = T1030
                           => ShownDurations(notes)[k] = <<"1", ".", "5", "h">>

\* C12 witness: the list shows 1.5h for the note from 09:00 to 10:30.
ShowsOneAndAHalfHours ==
    /\ pc = "idle"
    /\ HasNotes(notes)
    /\ Items(notes)[1].startTime = T0900
    /\ Items(notes)[1].endTime = T1030
    /\ ShownDurations(notes) = << <<"1", ".", "5", "h">> >>

\* The blob is the JSON text of an array of one or more notes.
HoldsPersistedNotes(st) ==
    /\ st.present
    /\ Parse(st.blob).ok
    /\ HasNotes(Parse(st.blob).val)
    /\ \A k \in 1..Len(Parse(st.blob).val.items) :
          Parse(st.blob).val.items[k].type = "object"

\* The application is between its start and the first render of what it loaded.
StartingUp == pc \in {"mounted", "loaded", "effects_done"}

\* C13: starting the application does not destroy persisted data: no step
\* between the start and the first user operation, however often the mount
\* effects run, changes a blob that holds an array of notes, and the step that
\* ends the start leaves that array as the collection in memory.
StartupKeepsPersistedNotes ==
    [][StartingUp /\ HoldsPersistedNotes(storage)
          => /\ storage' = storage
             /\ pc' = "idle" => notes' = Parse(storage.blob).val]_vars

\* C14: the note being edited exists: editingNoteId is null or the id of a
\* note of the collection, after any interleaving of edit, delete, delete
\* all, submit and cancel.
EditingTargetExists ==
    editingNoteId # Null
        => IsArray(notes) /\ \E k \in 1..Len(Items(notes)) : Items(notes)[k].id = editingNoteId

====
